---- MODULE Spec2Model ----
(***************************************************************************)
(* kiss-queue: an unbounded MPSC queue.  One QueueInner (queue, waker,     *)
(* receiver_dropped) sits behind an Arc<Mutex<..>>; Sender handles are     *)
(* cloneable, the Receiver is a Stream, a Sink wraps an Option<Sender>.    *)
(*                                                                         *)
(* Granularity: taking the mutex is one step (lock), the critical section  *)
(* up to the release of the guard is one step (the action named after the  *)
(* method), and the Arc strong-count changes that Rust performs outside    *)
(* the mutex (Clone, the field drop that follows Drop::drop) are steps of  *)
(* their own.                                                              *)
(***************************************************************************)
EXTENDS Integers, Sequences, FiniteSets, TLC

\* ---- bounds of the model -------------------------------------------------
MaxHandles == 2      \* Sender handles ever created (the first one and its clones)
MaxSend == 3         \* values accepted into the queue, all handles together

Handles == 1..MaxHandles
RX == 0              \* the Receiver, as a lock holder

VARIABLES
    queue,             \* QueueInner.queue : VecDeque<T>
    waker,             \* QueueInner.waker : Option<Waker>, TRUE = Some
    receiver_dropped,  \* QueueInner.receiver_dropped
    strong,            \* Arc::strong_count of the shared state
    cs,                \* who holds the mutex, and inside which operation
    st,                \* per handle: what the handle currently is
    rx,                \* the Receiver handle: "live", "dropping", "gone"
    task,              \* the consumer task: "ready", "polling", "parked", "done"
    notified,          \* a stored waker was fired and the task not yet re-polled
    accepted,          \* history: values pushed by successful sends, in lock order
    yielded,           \* history: values returned by poll_next as Ready(Some)
    eos,               \* history: poll_next returned Ready(None): "no", "once", "again"
    fires,             \* history: times the waker stored by the latest Pending was fired
    readied,           \* history: open Sinks whose latest poll_ready said Ok
    last               \* the call that returned in the last step, and its result

vars == <<queue, waker, receiver_dropped, strong, cs, st, rx, task, notified,
          accepted, yielded, eos, fires, readied, last>>

inner == <<queue, waker, receiver_dropped>>
hist == <<accepted, yielded, eos>>
wakes == <<notified, fires>>

NoValue == <<0, 0>>
NoCS == [who |-> -1, op |-> "none"]
Ret(p, o, k, l, v) == [who |-> p, op |-> o, kind |-> k, len |-> l, val |-> v]
\* no call returned in the last step (a lock was taken, a drop went on)
NoRet == Ret(-1, "none", "none", 0, NoValue)

\* ---- pieces of the code, as operators ------------------------------------
\* Each piece is preceded by a faulty variant of it (a slip the code could
\* contain); the variants are used only to test that the theorems below
\* depend on the piece.

\* VecDeque::push_back
push_front(q, v) == <<v>> \o q
push_back(q, v) == Append(q, v)

\* VecDeque::pop_front: the value returned and the queue left (queue non-empty)
pop_back_value(q) == q[Len(q)]
pop_front_value(q) == Head(q)

pop_front_rest(q) == Tail(q)

\* send: `if !inner.receiver_dropped`
send_always(dropped) == TRUE
send_accepts(dropped) == ~dropped

\* send: `let len = inner.queue.len()` after the push, returned as Ok(len)
send_len_before(q) == Len(q) - 1
send_len(q) == Len(q)

\* send: `for waker in inner.waker.take() { waker.wake_by_ref() }`: a wake
\* fires iff a waker was stored
send_wakes_never(w) == FALSE
send_wakes(w) == w

\* send: `inner.waker.take()` leaves None in the slot
send_keeps(w) == w
send_takes(w) == FALSE

\* Drop for Sender: the same loop over `waker.take()`
drop_wakes_never(w) == FALSE
drop_wakes(w) == w

\* Drop for Receiver: `inner.receiver_dropped = true`
drop_receiver_keeps_flag(dropped) == dropped
drop_receiver_flag(dropped) == TRUE

\* Drop for Receiver: `inner.waker = None` drops the stored Waker, no wake
drop_receiver_wakes_stored(w) == w
drop_receiver_wakes(w) == FALSE

\* the Arc field of a dropped handle: the strong count goes down by one
arc_leak(count) == count
arc_drop(count) == count - 1

\* Sender::queue_len
queue_len_of(q) == Len(q)

\* poll_next: the three-way decision taken under the lock
poll_count_first(q, count) ==
    IF count = 1 THEN "None" ELSE IF q # <<>> THEN "Some" ELSE "Pending"
poll_never_none(q, count) ==
    IF q # <<>> THEN "Some" ELSE "Pending"
poll_none_at_two(q, count) ==
    IF q # <<>> THEN "Some" ELSE IF count <= 2 THEN "None" ELSE "Pending"
poll_decision(q, count) ==
    IF q # <<>> THEN "Some"
    ELSE IF count = 1 THEN "None"
    ELSE "Pending"

\* poll_next: the MutexGuard `inner` is dropped when the function returns,
\* whatever it returns
guard_kept_on_pending(d) ==
    IF d = "Pending" THEN [who |-> RX, op |-> "poll_next"] ELSE NoCS
guard_dropped(d) == NoCS

\* FusedStream::is_terminated
is_terminated_drained(q, count) == count = 1 /\ q = <<>>
is_terminated_of(q, count) == count = 1

\* Sink: `if let Some(inner) = &self.0`
sink_is_some(s) == s = "sink"

\* Sink::poll_ready: Closed without a Sender, else what is_cancelled says
poll_ready_cancel_first(some, dropped) ==
    IF dropped THEN "ReceiverDropped" ELSE IF some THEN "Ok" ELSE "Closed"
poll_ready_result(some, dropped) ==
    IF some
    THEN IF ~dropped THEN "Ok" ELSE "ReceiverDropped"
    ELSE "Closed"

\* Sink::start_send: `Ok(_) => Ok(())`, `Err(SendError::ReceiverDropped) =>
\* Err(SinkError::ReceiverDropped)`, applied to what Sender::send returned
start_send_maps_closed(r) ==
    IF r.kind = "Ok" THEN [r EXCEPT !.len = 0] ELSE [r EXCEPT !.kind = "Closed"]
start_send_maps(r) ==
    IF r.kind = "Ok" THEN [r EXCEPT !.len = 0] ELSE r

\* Sink::poll_close: `self.0 = None`
sink_stays_open(s) == "sink"
sink_after_close(s) == "closed"

\* ---- derived ----------------------------------------------------------
\* 1 if a wake is fired, 0 if not
Count(b) == IF b THEN 1 ELSE 0
\* handles that own a share of the Arc
Holding == {"sender", "sink", "dropping", "closing"}
SenderShares == Cardinality({h \in Handles : st[h] \in Holding})
Unborn == {h \in Handles : st[h] = "unborn"}
Min(S) == CHOOSE x \in S : \A y \in S : x <= y
\* the values a handle sends are tagged (handle, 1), (handle, 2), ...
Sent(h) == Cardinality({i \in 1..Len(accepted) : accepted[i][1] = h})
NextValue(h) == <<h, Sent(h) + 1>>

\* ---- mpsc() ----------------------------------------------------------
Init ==
    /\ queue = <<>>
    /\ waker = FALSE
    /\ receiver_dropped = FALSE
    /\ strong = 2
    /\ cs = NoCS
    /\ st = [h \in Handles |-> IF h = 1 THEN "sender" ELSE "unborn"]
    /\ rx = "live"
    /\ task = "ready"
    /\ notified = FALSE
    /\ accepted = <<>>
    /\ yielded = <<>>
    /\ eos = "no"
    /\ fires = 0
    /\ readied = {}
    /\ last = NoRet


\* ---- the mutex ---------------------------------------------------------
\* which locking operation a handle may start in its current form
\* (sends stop once MaxSend values were accepted: the bound of the model)
CanCall(h, o) ==
    CASE o = "send"         -> st[h] = "sender" /\ Len(accepted) < MaxSend
      [] o = "queue_len"    -> st[h] = "sender"
      [] o = "is_cancelled" -> st[h] = "sender"
      [] o = "drop"         -> st[h] \in {"sender", "sink"}
      [] o = "poll_ready"   -> sink_is_some(st[h])
      [] o = "start_send"   -> sink_is_some(st[h]) /\ Len(accepted) < MaxSend
      [] o = "poll_close"   -> sink_is_some(st[h])
      [] OTHER              -> FALSE

LockingOps ==
    {"send", "queue_len", "is_cancelled", "drop", "poll_ready", "start_send", "poll_close"}

\* `self.0.lock().unwrap()` in a Sender or Sink operation
lock(h, o) ==
    /\ cs = NoCS
    /\ CanCall(h, o)
    /\ cs' = [who |-> h, op |-> o]
    /\ last' = NoRet
    /\ UNCHANGED <<inner, strong, st, rx, task, wakes, readied, hist>>

\* ---- Sender ----------------------------------------------------------
\* Clone for Sender (derived): Arc::clone, no lock taken
clone(h) ==
    /\ st[h] = "sender"
    /\ Unborn # {}
    /\ st' = [st EXCEPT ![Min(Unborn)] = "sender"]
    /\ strong' = strong + 1
    /\ last' = Ret(h, "clone", "Ok", 0, NoValue)
    /\ UNCHANGED <<inner, cs, rx, task, wakes, readied, hist>>

\* the body of Sender::send under the lock, called as operation o by handle h
send_body(h, o) ==
    LET v == NextValue(h)
        Result(r) == IF o = "start_send" THEN start_send_maps(r) ELSE r
    IN
    /\ IF send_accepts(receiver_dropped)
       THEN /\ queue' = push_back(queue, v)
            /\ accepted' = Append(accepted, v)
            /\ waker' = send_takes(waker)
            /\ notified' = (notified \/ send_wakes(waker))
            /\ fires' = fires + Count(send_wakes(waker))
            /\ last' = Result(Ret(h, o, "Ok", send_len(queue'), v))
       ELSE /\ last' = Result(Ret(h, o, "ReceiverDropped", 0, v))
            /\ UNCHANGED <<queue, accepted, waker, wakes>>
    /\ cs' = NoCS
    /\ UNCHANGED <<receiver_dropped, strong, st, rx, task, yielded, eos, readied>>

send(h) ==
    /\ cs = [who |-> h, op |-> "send"]
    /\ send_body(h, "send")

queue_len(h) ==
    /\ cs = [who |-> h, op |-> "queue_len"]
    /\ last' = Ret(h, "queue_len", "Len", queue_len_of(queue), NoValue)
    /\ cs' = NoCS
    /\ UNCHANGED <<inner, strong, st, rx, task, wakes, readied, hist>>

is_cancelled(h) ==
    /\ cs = [who |-> h, op |-> "is_cancelled"]
    /\ last' = Ret(h, "is_cancelled", IF receiver_dropped THEN "True" ELSE "False",
                   0, NoValue)
    /\ cs' = NoCS
    /\ UNCHANGED <<inner, strong, st, rx, task, wakes, readied, hist>>

\* Sender::sink: wraps the Sender, the share moves into the Sink
sink(h) ==
    /\ st[h] = "sender"
    /\ st' = [st EXCEPT ![h] = "sink"]
    /\ last' = Ret(h, "sink", "Ok", 0, NoValue)
    /\ UNCHANGED <<inner, strong, cs, rx, task, wakes, readied, hist>>

\* the body of Drop::drop for Sender: take the waker and fire it, under the lock
drop_body ==
    /\ waker' = FALSE
    /\ notified' = (notified \/ drop_wakes(waker))
    /\ fires' = fires + Count(drop_wakes(waker))
    /\ cs' = NoCS
    /\ UNCHANGED <<queue, receiver_dropped, strong, rx, task, hist>>

\* Drop for Sender (a Sender, or an open Sink going out of scope)
drop_sender(h) ==
    /\ cs = [who |-> h, op |-> "drop"]
    /\ drop_body
    /\ st' = [st EXCEPT ![h] = "dropping"]
    /\ readied' = readied \ {h}
    /\ last' = NoRet

\* after Drop::drop returns the Arc field is dropped: the count goes down
release_sender(h) ==
    /\ st[h] = "dropping"
    /\ strong' = arc_drop(strong)
    /\ st' = [st EXCEPT ![h] = "gone"]
    /\ last' = Ret(h, "drop", "Ok", 0, NoValue)
    /\ UNCHANGED <<inner, cs, rx, task, wakes, readied, hist>>


\* ---- Receiver --------------------------------------------------------
\* the consumer task is polled because it is runnable: it has not parked yet,
\* or a wake was fired since it parked
poll_scheduled ==
    /\ rx = "live"
    /\ cs = NoCS
    /\ task = "ready" \/ (task = "parked" /\ notified)
    /\ cs' = [who |-> RX, op |-> "poll_next"]
    /\ task' = "polling"
    /\ notified' = FALSE
    /\ last' = NoRet
    /\ UNCHANGED <<inner, strong, st, rx, fires, readied, hist>>

\* poll_next called although no wake was fired (any caller of the Stream may)
poll_spurious ==
    /\ rx = "live"
    /\ cs = NoCS
    /\ task = "done" \/ (task = "parked" /\ ~notified)
    /\ cs' = [who |-> RX, op |-> "poll_next"]
    /\ task' = "polling"
    /\ notified' = FALSE
    /\ last' = NoRet
    /\ UNCHANGED <<inner, strong, st, rx, fires, readied, hist>>

\* Stream::poll_next under the lock
poll_next ==
    /\ cs = [who |-> RX, op |-> "poll_next"]
    /\ LET d == poll_decision(queue, strong) IN
       CASE d = "Some" ->
              /\ queue' = pop_front_rest(queue)
              /\ yielded' = Append(yielded, pop_front_value(queue))
              /\ task' = "ready"
              /\ last' = Ret(RX, "poll_next", "Some", 0, pop_front_value(queue))
              /\ UNCHANGED <<waker, eos, fires>>
         [] d = "None" ->
              /\ eos' = (IF eos = "no" THEN "once" ELSE "again")
              /\ task' = "done"
              /\ last' = Ret(RX, "poll_next", "None", 0, NoValue)
              /\ UNCHANGED <<queue, waker, yielded, fires>>
         [] OTHER ->
              /\ waker' = TRUE
              /\ fires' = 0
              /\ task' = "parked"
              /\ last' = Ret(RX, "poll_next", "Pending", 0, NoValue)
              /\ UNCHANGED <<queue, yielded, eos>>
    /\ cs' = guard_dropped(poll_decision(queue, strong))
    /\ UNCHANGED <<receiver_dropped, strong, st, rx, notified, readied, accepted>>

\* FusedStream::is_terminated: reads the count, takes no lock
is_terminated ==
    /\ rx = "live"
    /\ cs.who # RX
    /\ last' = Ret(RX, "is_terminated",
                   IF is_terminated_of(queue, strong) THEN "True" ELSE "False",
                   0, NoValue)
    /\ UNCHANGED <<inner, strong, cs, st, rx, task, wakes, readied, hist>>

\* Drop for Receiver: takes the lock ...
lock_drop_receiver ==
    /\ rx = "live"
    /\ cs = NoCS
    /\ cs' = [who |-> RX, op |-> "drop"]
    /\ last' = NoRet
    /\ UNCHANGED <<inner, strong, st, rx, task, wakes, readied, hist>>

\* ... sets the flag and forgets the waker without firing it ...
drop_receiver ==
    /\ cs = [who |-> RX, op |-> "drop"]
    /\ receiver_dropped' = drop_receiver_flag(receiver_dropped)
    /\ waker' = FALSE
    /\ notified' = (notified \/ drop_receiver_wakes(waker))
    /\ fires' = fires + Count(drop_receiver_wakes(waker))
    /\ rx' = "dropping"
    /\ cs' = NoCS
    /\ last' = NoRet
    /\ UNCHANGED <<queue, strong, st, task, readied, hist>>

\* ... and then the Receiver's Arc field is dropped
release_receiver ==
    /\ rx = "dropping"
    /\ strong' = arc_drop(strong)
    /\ rx' = "gone"
    /\ last' = Ret(RX, "drop", "Ok", 0, NoValue)
    /\ UNCHANGED <<inner, cs, st, task, wakes, readied, hist>>

\* ---- Sink --------------------------------------------------------------
\* Sink::poll_ready on an open Sink: Sender::is_cancelled under the lock
poll_ready(h) ==
    /\ cs = [who |-> h, op |-> "poll_ready"]
    /\ LET k == poll_ready_result(sink_is_some(st[h]), receiver_dropped) IN
         /\ last' = Ret(h, "poll_ready", k, 0, NoValue)
         /\ readied' = IF k = "Ok" THEN readied \cup {h} ELSE readied \ {h}
    /\ cs' = NoCS
    /\ UNCHANGED <<inner, strong, st, rx, task, wakes, hist>>

\* Sink::poll_ready on a closed Sink: no lock is taken
poll_ready_closed(h) ==
    /\ st[h] = "closed"
    /\ ~sink_is_some(st[h])
    /\ last' = Ret(h, "poll_ready",
                   poll_ready_result(sink_is_some(st[h]), receiver_dropped), 0, NoValue)
    /\ UNCHANGED <<inner, strong, cs, st, rx, task, wakes, readied, hist>>

\* Sink::start_send on an open Sink: Sender::send, the error mapped
start_send(h) ==
    /\ cs = [who |-> h, op |-> "start_send"]
    /\ send_body(h, "start_send")

\* Sink::start_send on a closed Sink
start_send_closed(h) ==
    /\ st[h] = "closed"
    /\ ~sink_is_some(st[h])
    /\ Len(accepted) < MaxSend
    /\ last' = Ret(h, "start_send", "Closed", 0, NextValue(h))
    /\ UNCHANGED <<inner, strong, cs, st, rx, task, wakes, readied, hist>>

\* Sink::poll_flush
poll_flush(h) ==
    /\ st[h] \in {"sink", "closed"}
    /\ cs.who # h
    /\ last' = Ret(h, "poll_flush", "Ok", 0, NoValue)
    /\ UNCHANGED <<inner, strong, cs, st, rx, task, wakes, readied, hist>>

\* Sink::poll_close on an open Sink: `self.0 = None` drops the held Sender,
\* whose Drop::drop runs under the lock ...
poll_close(h) ==
    /\ cs = [who |-> h, op |-> "poll_close"]
    /\ drop_body
    /\ st' = [st EXCEPT ![h] = "closing"]
    /\ readied' = readied \ {h}
    /\ last' = NoRet

\* ... then the Arc field is dropped, None is stored and Ready(Ok(())) returned
poll_close_release(h) ==
    /\ st[h] = "closing"
    /\ strong' = arc_drop(strong)
    /\ st' = [st EXCEPT ![h] = sink_after_close(st[h])]
    /\ last' = Ret(h, "poll_close", "Ok", 0, NoValue)
    /\ UNCHANGED <<inner, cs, rx, task, wakes, readied, hist>>

\* Sink::poll_close on a closed Sink: None is overwritten by None
poll_close_closed(h) ==
    /\ st[h] = "closed"
    /\ st' = [st EXCEPT ![h] = sink_after_close(st[h])]
    /\ last' = Ret(h, "poll_close", "Ok", 0, NoValue)
    /\ UNCHANGED <<inner, strong, cs, rx, task, wakes, readied, hist>>

\* a closed Sink goes out of scope: nothing is held, nothing happens
drop_closed(h) ==
    /\ st[h] = "closed"
    /\ st' = [st EXCEPT ![h] = "gone"]
    /\ last' = Ret(h, "drop", "Ok", 0, NoValue)
    /\ UNCHANGED <<inner, strong, cs, rx, task, wakes, readied, hist>>

\* ---- the system --------------------------------------------------------
Next ==
    \/ \E h \in Handles, o \in LockingOps : lock(h, o)
    \/ \E h \in Handles : clone(h)
    \/ \E h \in Handles : send(h)
    \/ \E h \in Handles : queue_len(h)
    \/ \E h \in Handles : is_cancelled(h)
    \/ \E h \in Handles : sink(h)
    \/ \E h \in Handles : drop_sender(h)
    \/ \E h \in Handles : release_sender(h)
    \/ poll_scheduled
    \/ poll_spurious
    \/ poll_next
    \/ is_terminated
    \/ lock_drop_receiver
    \/ drop_receiver
    \/ release_receiver
    \/ \E h \in Handles : poll_ready(h)
    \/ \E h \in Handles : poll_ready_closed(h)
    \/ \E h \in Handles : start_send(h)
    \/ \E h \in Handles : start_send_closed(h)
    \/ \E h \in Handles : poll_flush(h)
    \/ \E h \in Handles : poll_close(h)
    \/ \E h \in Handles : poll_close_release(h)
    \/ \E h \in Handles : poll_close_closed(h)
    \/ \E h \in Handles : drop_closed(h)

Spec == Init /\ [][Next]_vars


\* ---- fairness ----------------------------------------------------------
\* whoever holds the mutex finishes its critical section
critical_section ==
    \/ \E h \in Handles : send(h) \/ queue_len(h) \/ is_cancelled(h) \/ drop_sender(h)
    \/ \E h \in Handles : poll_ready(h) \/ start_send(h) \/ poll_close(h)
    \/ poll_next
    \/ drop_receiver

\* a drop that has run Drop::drop goes on to drop the Arc field
release ==
    \/ \E h \in Handles : release_sender(h) \/ poll_close_release(h)
    \/ release_receiver

\* The executor polls a runnable consumer task, and a waiting lock() is
\* served; nothing obliges a producer to send, clone or drop, the consumer to
\* drop the Receiver, or anybody to poll a task that was not woken.
Fairness ==
    /\ WF_vars(critical_section)
    /\ WF_vars(release)
    /\ SF_vars(poll_scheduled)

LiveSpec == Init /\ [][Next]_vars /\ Fairness


\* ---- vocabulary of the properties --------------------------------------
IsPrefix(a, b) == Len(a) <= Len(b) /\ SubSeq(b, 1, Len(a)) = a
NoDup(a) == \A i, j \in 1..Len(a) : a[i] = a[j] => i = j

\* the step in which the critical section of operation o ends
Leaves(o) == cs.op = o /\ cs' = NoCS
\* the step in which handle p returns from operation o
Returns(p, o) == last' # last /\ last'.who = p /\ last'.op = o

\* C1: FIFO delivery.  In every reachable state the values yielded so far are
\* a prefix of the values accepted so far (taken in the order the sends held
\* the lock), what is left of them is exactly the buffer, in order, and no
\* value was yielded twice.
C1_Fifo ==
    /\ IsPrefix(yielded, accepted)
    /\ accepted = yielded \o queue
    /\ NoDup(yielded)

\* two producers interleaved, part of it yielded, part still buffered
C1_Witness ==
    /\ Len(yielded) >= 2
    /\ yielded[1][1] # yielded[2][1]
    /\ queue # <<>>

\* C2: shutdown liveness.  Whenever the Receiver is live and parked and no
\* Sender share exists, the Receiver eventually obtains end-of-stream (or its
\* owner gives it up).
C2_ShutdownLiveness ==
    (rx = "live" /\ task = "parked" /\ SenderShares = 0) ~> (eos # "no" \/ rx # "live")

\* C3: delivery liveness.  The k-th accepted value is eventually the k-th
\* yielded value unless the Receiver is released, and the consumer is never
\* parked on a non-empty buffer without a wake having been fired.
C3_Delivery ==
    /\ \A k \in 1..MaxSend :
          (Len(accepted) >= k) ~> (Len(yielded) >= k \/ rx # "live")
    /\ [](rx = "live" /\ task = "parked" /\ queue # <<>> => notified)

\* a send found the consumer parked and fired its waker
C3_Witness ==
    /\ rx = "live" /\ task = "parked" /\ notified
    /\ last.op = "send" /\ last.kind = "Ok"
    /\ queue # <<>>

\* C4: end-of-stream.  A poll_next that runs with no Sender share in existence
\* and an empty buffer returns Ready(None) and stores no waker; after a
\* Ready(None) every poll_next returns Ready(None), and no Sender share
\* exists ever again.
C4_EndOfStream ==
    [][ /\ (Leaves("poll_next") /\ SenderShares = 0 /\ queue = <<>>)
              => (last'.kind = "None" /\ waker' = waker /\ task' = "done")
        /\ (Leaves("poll_next") /\ eos # "no") => last'.kind = "None"
        /\ (eos # "no") => (SenderShares' = 0 /\ eos' # "no")
      ]_vars

\* a second poll_next after the first Ready(None) has returned Ready(None)
C4_Witness ==
    /\ eos = "again"
    /\ last.op = "poll_next" /\ last.kind = "None"

\* C5: drain before end-of-stream.  A poll_next that finds the buffer non-empty
\* yields a value, never Ready(None); and once Ready(None) was returned every
\* accepted value has been yielded.
C5_Drain ==
    /\ [][ (Leaves("poll_next") /\ queue # <<>>)
              => (last'.kind = "Some" /\ last'.val = Head(queue)) ]_vars
    /\ [](eos # "no" => (yielded = accepted /\ queue = <<>>))

\* send A, send B, release the senders, then pulls yield A, B, end-of-stream
C5_Witness ==
    /\ eos = "once"
    /\ Len(yielded) >= 2
    /\ last.op = "poll_next" /\ last.kind = "None"


\* C6: post-release send failure.  Once the Receiver has been released every
\* send returns Err(ReceiverDropped) and the buffer never changes again;
\* is_cancelled() returns true exactly when the Receiver has been released,
\* and a released Receiver stays released.
C6_PostRelease ==
    [][ /\ (rx # "live" /\ Leaves("send"))
              => (last'.kind = "ReceiverDropped" /\ queue' = queue)
        /\ (rx # "live") => (queue' = queue /\ rx' # "live" /\ receiver_dropped')
        /\ Leaves("is_cancelled") => (last'.kind = "True" <=> rx # "live")
      ]_vars

\* a send after the release failed and left the buffered value where it was
C6_Witness ==
    /\ rx # "live"
    /\ last.op = "send" /\ last.kind = "ReceiverDropped"
    /\ queue # <<>>

\* C7: multi-producer order.  The values of one producer are yielded in the
\* order that producer sent them: their tags increase along the yielded
\* sequence.
C7_PerProducerOrder ==
    \A i, j \in 1..Len(yielded) :
        (i < j /\ yielded[i][1] = yielded[j][1]) => yielded[i][2] < yielded[j][2]

\* two values of one producer were yielded with another producer's in between
C7_Witness ==
    /\ Len(yielded) = 3
    /\ yielded[1][1] = yielded[3][1]
    /\ yielded[2][1] # yielded[1][1]

\* C8: queue-length accounting.  A successful send returns the buffer length
\* just after its insertion, which is one more than before; queue_len()
\* returns, and the buffer length always is, the number of successful sends
\* minus the number of values yielded; a failed send and a pull that yields
\* nothing leave the length alone.
C8_QueueLen ==
    [][ /\ (Leaves("send") /\ last'.kind = "Ok")
              => (last'.len = Len(queue') /\ Len(queue') = Len(queue) + 1)
        /\ Leaves("queue_len") => last'.len = Len(accepted) - Len(yielded)
        /\ Len(queue') = Len(accepted') - Len(yielded')
        /\ (Leaves("send") /\ last'.kind # "Ok") => Len(queue') = Len(queue)
        /\ (Leaves("poll_next") /\ last'.kind # "Some") => Len(queue') = Len(queue)
      ]_vars

\* queue_len() answered 1 after two successful sends and one yielded value
C8_Witness ==
    /\ last.op = "queue_len" /\ last.len = 1
    /\ Len(accepted) = 2
    /\ Len(yielded) = 1

\* C9: termination query.  is_terminated() returns true exactly when no Sender
\* share exists, whatever the buffer holds; and a poll_next that runs with no
\* Sender share and a non-empty buffer yields the front value.
C9_Terminated ==
    [][ /\ Returns(RX, "is_terminated") => (last'.kind = "True" <=> SenderShares = 0)
        /\ (Leaves("poll_next") /\ SenderShares = 0 /\ queue # <<>>)
              => (last'.kind = "Some" /\ yielded' = Append(yielded, Head(queue)))
      ]_vars

\* is_terminated() has just returned true while a value is still buffered
C9_Witness ==
    /\ last.op = "is_terminated" /\ last.kind = "True"
    /\ queue # <<>>
    /\ yielded = <<>>

\* C10: Sink close is idempotent and terminal.  poll_close returns Ok from an
\* open and from a closed Sink and leaves the Sink closed; a closed Sink never
\* holds a Sender again; start_send on a closed Sink returns Err(Closed) and
\* changes nothing of the shared state.
C10_SinkClose ==
    [][ \A h \in Handles :
        /\ Returns(h, "poll_close") => (last'.kind = "Ok" /\ st'[h] = "closed")
        /\ (st[h] = "closed") => (st'[h] \in {"closed", "gone"})
        /\ (st[h] = "closed" /\ Returns(h, "start_send"))
              => (last'.kind = "Closed" /\ inner' = inner /\ strong' = strong)
      ]_vars

\* start_send on a closed Sink was refused while the Receiver is still there
C10_Witness ==
    /\ last.op = "start_send" /\ last.kind = "Closed"
    /\ st[last.who] = "closed"
    /\ rx = "live"


\* the step in which the critical section of operation o, run by p, ends
LeavesBy(p, o) == cs = [who |-> p, op |-> o] /\ cs' # cs
\* a stored waker is fired in this step
Fired == fires' = fires + 1
\* what the Senders and the Receiver share, and the number of shares
shared == <<queue, waker, receiver_dropped, strong, notified, fires>>

\* C11: Sink readiness.  poll_ready always returns Ready: Ok from an open Sink
\* while the Receiver is not released, Err(ReceiverDropped) from an open Sink
\* once it is, Err(Closed) from a closed Sink whether or not the Receiver is
\* released; and it changes nothing but the caller's knowledge.
C11_SinkReady ==
    [][ \A h \in Handles : Returns(h, "poll_ready") =>
          /\ (st[h] = "sink" /\ rx = "live") => last'.kind = "Ok"
          /\ (st[h] = "sink" /\ rx # "live") => last'.kind = "ReceiverDropped"
          /\ (st[h] = "closed") => last'.kind = "Closed"
          /\ last'.kind \in {"Ok", "ReceiverDropped", "Closed"}
          /\ UNCHANGED <<shared, st, rx, task, hist>>
      ]_vars

\* a closed Sink answered Closed although the Receiver is released as well
C11_Witness ==
    /\ last.op = "poll_ready" /\ last.kind = "Closed"
    /\ st[last.who] = "closed"
    /\ rx # "live"

\* C12: send racing with the Receiver's release.  A send that runs before the
\* release returns Ok and appends its value; one that runs after it returns
\* Err(ReceiverDropped) and leaves the buffer; after the release nothing is
\* yielded and the buffer stays as it is; and a send that holds the lock can
\* always complete.
C12_SendVsRelease ==
    /\ [][ /\ \A h \in Handles : LeavesBy(h, "send") =>
                \/ /\ rx = "live"
                   /\ last'.kind = "Ok"
                   /\ queue' = Append(queue, last'.val)
                \/ /\ rx # "live"
                   /\ last'.kind = "ReceiverDropped"
                   /\ queue' = queue
           /\ (rx # "live") => (yielded' = yielded /\ queue' = queue)
         ]_vars
    /\ [](\A h \in Handles : cs = [who |-> h, op |-> "send"] => ENABLED send(h))

\* a value was yielded, a later one was accepted, then the Receiver was
\* released: the later one stays in the buffer
C12_Witness ==
    /\ rx = "dropping"
    /\ yielded # <<>>
    /\ queue # <<>>
    /\ last = NoRet


\* what Sender::send does to the shared state when handle h calls it
AsSend(h) ==
    IF ~receiver_dropped
    THEN /\ queue' = Append(queue, NextValue(h))
         /\ accepted' = Append(accepted, NextValue(h))
         /\ waker' = FALSE
         /\ notified' = (notified \/ waker)
         /\ fires' = fires + Count(waker)
         /\ UNCHANGED <<receiver_dropped, strong>>
    ELSE UNCHANGED <<shared, accepted>>

\* C13: start_send on an open Sink is Sender::send.  Both change the shared
\* state in the same way (append and fire-and-clear the stored waker, or
\* nothing once the Receiver is released), and start_send returns Ok(()) where
\* send returns Ok(len) and Err(ReceiverDropped) where send does.
C13_StartSendIsSend ==
    [][ \A h \in Handles :
          /\ LeavesBy(h, "send") =>
                /\ AsSend(h)
                /\ last'.kind = (IF receiver_dropped THEN "ReceiverDropped" ELSE "Ok")
          /\ LeavesBy(h, "start_send") =>
                /\ AsSend(h)
                /\ last'.kind = (IF receiver_dropped THEN "ReceiverDropped" ELSE "Ok")
                /\ last'.len = 0
                /\ last'.op = "start_send"
      ]_vars

\* poll_ready said Ok, the Receiver was released, and the start_send that
\* followed (the first one through this Sink) was refused
C13_Witness ==
    /\ last.op = "start_send" /\ last.kind = "ReceiverDropped"
    /\ last.who \in readied
    /\ accepted = <<>>

\* C14: at most one fire per registration.  The waker stored by a Pending
\* poll_next is fired at most once, and a stored waker has not been fired yet;
\* a successful send fires the stored waker once and leaves the slot empty (so
\* the next send finds nothing to fire); a Pending poll_next leaves exactly
\* its own, unfired, waker in the slot.
C14_OneFire ==
    /\ [](fires <= 1 /\ (waker => fires = 0))
    /\ [][ /\ \A h \in Handles : (LeavesBy(h, "send") /\ last'.kind = "Ok") =>
                (waker' = FALSE /\ fires' = fires + Count(waker))
           /\ (LeavesBy(RX, "poll_next") /\ last'.kind = "Pending") =>
                (waker' = TRUE /\ fires' = 0)
         ]_vars

\* the second of two sends in a row found the slot empty and fired nothing
C14_Witness ==
    /\ last.op = "send" /\ last.kind = "Ok"
    /\ Len(queue) >= 2
    /\ task = "parked" /\ notified
    /\ fires = 1
    /\ ~waker


\* C15: the outcome of a pull.  poll_next decides under the lock, by three
\* cases: a non-empty buffer yields its front value, whatever the shares; an
\* empty buffer with no Sender share counted ends the stream and stores no
\* waker; an empty buffer with a Sender share counted stores the caller's
\* waker and returns Pending.  So Pending is returned only on an empty buffer
\* with a Sender share outstanding.
C15_PullCases ==
    [][ LeavesBy(RX, "poll_next") =>
          /\ (queue # <<>>) =>
                /\ last'.kind = "Some" /\ last'.val = Head(queue)
                /\ queue' = Tail(queue)
                /\ UNCHANGED <<waker, fires>>
          /\ (queue = <<>> /\ SenderShares = 0) =>
                /\ last'.kind = "None"
                /\ UNCHANGED <<queue, waker, fires>>
          /\ (queue = <<>> /\ SenderShares >= 1) =>
                /\ last'.kind = "Pending"
                /\ waker' = TRUE
                /\ queue' = queue
          /\ (last'.kind = "Pending") => (queue = <<>> /\ SenderShares >= 1)
          /\ cs' = NoCS
      ]_vars

\* Pending was returned on an empty buffer because of the one share that a
\* Sender in the middle of its drop still holds
C15_Witness ==
    /\ last.op = "poll_next" /\ last.kind = "Pending"
    /\ SenderShares = 1
    /\ \E h \in Handles : st[h] = "dropping"
    /\ yielded # <<>>

\* C16 as claimed: a stored waker is fired only by a successful send or by the
\* release of the last Sender share.
C16_OnlyLastRelease ==
    [][ Fired =>
          \/ \E h \in Handles :
                (LeavesBy(h, "send") \/ LeavesBy(h, "start_send")) /\ last'.kind = "Ok"
          \/ \E h \in Handles :
                (LeavesBy(h, "drop") \/ LeavesBy(h, "poll_close")) /\ SenderShares = 1
      ]_vars

\* C16 as the code has it: a stored waker is fired by a successful send and by
\* the release of any Sender share, the last or not (a Sender dropped, an
\* open Sink dropped or closed), and by nothing else: not by a failed send,
\* queue_len(), is_cancelled() or the Receiver's release.
C16_WakeSources ==
    [][ /\ Fired =>
             \/ \E h \in Handles :
                   (LeavesBy(h, "send") \/ LeavesBy(h, "start_send")) /\ last'.kind = "Ok"
             \/ \E h \in Handles : LeavesBy(h, "drop") \/ LeavesBy(h, "poll_close")
        /\ \A h \in Handles :
             (waker /\ (LeavesBy(h, "drop") \/ LeavesBy(h, "poll_close"))) => Fired
        /\ \A h \in Handles :
             (waker /\ LeavesBy(h, "send") /\ last'.kind = "Ok") => Fired
      ]_vars

\* a Sender was dropped while another one remains, and the drop woke the
\* parked consumer although nothing was ever sent
C16_Witness ==
    /\ \E h, g \in Handles : st[h] = "dropping" /\ st[g] = "sender"
    /\ fires = 1 /\ notified /\ task = "parked"
    /\ accepted = <<>>

\* C17: the effect of releasing the Receiver.  Drop for Receiver sets
\* receiver_dropped, empties the waker slot without firing what was stored,
\* and leaves the buffer and the Sender shares as they are; receiver_dropped
\* never becomes false again.
C17_ReceiverRelease ==
    [][ /\ LeavesBy(RX, "drop") =>
             /\ receiver_dropped' /\ ~waker'
             /\ ~Fired /\ UNCHANGED <<notified, fires>>
             /\ UNCHANGED <<queue, strong, st>>
        /\ receiver_dropped => receiver_dropped'
        /\ (rx = "dropping" /\ rx' = "gone") => UNCHANGED <<inner, st, notified, fires>>
      ]_vars

\* a Receiver that had yielded a value and parked again was released: its
\* stored waker is gone and was never fired
C17_Witness ==
    /\ rx = "dropping"
    /\ task = "parked" /\ ~notified /\ fires = 0
    /\ ~waker
    /\ yielded # <<>>


\* C18: lock discipline.  The lock changes hands only through the free
\* state; when a call that takes the lock returns, its handle does not hold
\* the lock; the lock is not held by
\* poll_next while the consumer is parked; and whoever holds the lock can
\* finish its critical section, so no state has the lock held with nobody
\* able to move.
C18_LockDiscipline ==
    /\ [](task = "parked" => cs # [who |-> RX, op |-> "poll_next"])
    /\ [](cs # NoCS => ENABLED critical_section)
    /\ [][ /\ (cs' # cs) => (cs = NoCS \/ cs' = NoCS)
           /\ (last' # last /\ last'.op \in LockingOps \cup {"poll_next"})
                 => cs'.who # last'.who
         ]_vars

\* a Sender is inside send, holding the lock, while the consumer is parked
C18_Witness ==
    /\ task = "parked"
    /\ cs.op = "send"
    /\ waker

\* C19: no missed wake.  While the Receiver is live and parked and the waker
\* it stored has not been fired, the buffer is empty and the waker is still
\* in the slot.
C19_NoMissedWake ==
    (rx = "live" /\ task = "parked" /\ fires = 0) => (queue = <<>> /\ waker)

\* the consumer has drained what was sent and is parked again, un-notified,
\* while a producer is about to send
C19_Witness ==
    /\ rx = "live" /\ task = "parked" /\ fires = 0
    /\ yielded # <<>>
    /\ cs.op = "send"

\* what Drop::drop for Sender does to the shared state
AsDrop ==
    /\ waker' = FALSE
    /\ notified' = (notified \/ waker)
    /\ fires' = fires + Count(waker)
    /\ UNCHANGED <<queue, receiver_dropped, strong>>

\* C20: closing an open Sink releases its Sender.  The first poll_close does
\* to the shared state what dropping the Sender does: it fires and clears a
\* stored waker and then takes one share off the count; a poll_close of a
\* closed Sink changes nothing shared; and with every Sink closed or gone and
\* the buffer empty, poll_next returns Ready(None).
C20_CloseReleases ==
    [][ /\ \A h \in Handles :
             /\ LeavesBy(h, "poll_close") => AsDrop
             /\ LeavesBy(h, "drop") => AsDrop
             /\ (st[h] = "closing" /\ Returns(h, "poll_close")) =>
                   (strong' = strong - 1 /\ UNCHANGED <<inner, notified, fires>>)
             /\ (st[h] = "dropping" /\ Returns(h, "drop")) =>
                   (strong' = strong - 1 /\ UNCHANGED <<inner, notified, fires>>)
             /\ (st[h] = "closed" /\ Returns(h, "poll_close")) => UNCHANGED shared
        /\ ( /\ LeavesBy(RX, "poll_next")
             /\ queue = <<>>
             /\ \A h \in Handles : st[h] \in {"unborn", "closed", "gone"} )
           => last'.kind = "None"
      ]_vars

\* the only Sender went into a Sink, the Sink was closed, and the pull after
\* that ended the stream
C20_Witness ==
    /\ last.op = "poll_next" /\ last.kind = "None"
    /\ st[1] = "closed"
    /\ \A h \in Handles : st[h] \in {"unborn", "closed"}
    /\ eos = "once"

====
